---- MODULE Spec2Model ----
(***************************************************************************)
(* Model of pyjq.py: the entry points all / apply / first / one, the input *)
(* resolver _get_value, the compile wrapper and default_opener.            *)
(*                                                                         *)
(* One behaviour of Spec is one call of one entry point.  The call is cut  *)
(* into the steps Python performs, in the order Python performs them:      *)
(*   call  -> (apply forwards to all) -> compile -> _get_value ->          *)
(*   Script.all/first/one pulling from the engine's result sequence.       *)
(* In `compile(s, v, l).all(_get_value(...))` the callee expression        *)
(* `compile(s, v, l).all` is evaluated before the argument list, so the    *)
(* compile step precedes input resolution.                                 *)
(*                                                                         *)
(* OpenerSpec is one call of default_opener.                               *)
(***************************************************************************)
EXTENDS Integers, Sequences, FiniteSets, TLC

\* ---------------------------------------------------------------- bounds
MaxLen == 2      \* longest JSON list used as an input value
MaxNum == 1      \* largest JSON number used as a list element
MaxSegs == 4     \* most segments a Content-Type header is built from

\* ------------------------------------------------------------ JSON values
JNull == [t |-> "null", v |-> <<>>]
JNum(n) == [t |-> "num", v |-> <<n>>]
JList(s) == [t |-> "list", v |-> s]

RECURSIVE SeqsUpTo(_, _)
SeqsUpTo(S, n) ==
    IF n = 0 THEN {<<>>}
    ELSE LET shorter == SeqsUpTo(S, n - 1)
         IN  shorter \cup {Append(s, x) : s \in {q \in shorter : Len(q) = n - 1}, x \in S}

Nums == 0..MaxNum
Values == {JNull} \cup {JNum(n) : n \in Nums} \cup {JList(s) : s \in SeqsUpTo(Nums, MaxLen)}

\* Python's None; as an input value it is the JSON null.
None == JNull
NoUrl == "None"
Urls == {"u1", "u2"}

\* --------------------------------------------------- caller-chosen inputs
Entries == {"all", "apply", "first", "one"}
Scripts == {".", ".[]", ".[] | 1 % .", "empty", ".,.,.", "$x",
            "import \"m\" as m; .", ".[", "\\udc80"}
VarsChoices == {<<>>, <<[name |-> "x", val |-> JNum(1)]>>}
LibraryPathsChoices == {<<>>, <<"lib">>}
Defaults == {None, JNum(0), JList(<<>>)}
Openers == {"opener_a", "opener_b"}

\* What a caller-supplied opener does with a url.
OpenerResult(opener, url) ==
    CASE opener = "opener_a" /\ url = "u1" -> [ok |-> TRUE, val |-> JList(<<1>>), err |-> ""]
      [] opener = "opener_a" /\ url = "u2" -> [ok |-> TRUE, val |-> None, err |-> ""]
      [] opener = "opener_b" /\ url = "u1" -> [ok |-> FALSE, val |-> None, err |-> "URLError"]
      [] OTHER -> [ok |-> TRUE, val |-> JNum(0), err |-> ""]

\* ---------------------------------------------- the evaluation engine
\* _pyjq.Script(script_bytes, vars, library_paths)
VarNames(vars) == {vars[i].name : i \in 1..Len(vars)}
LibSet(paths) == {paths[i] : i \in 1..Len(paths)}

ScriptNew(bytes, vars, library_paths) ==
    LET src == bytes[2]
        bad == \/ src = ".["
               \/ src = "$x" /\ "x" \notin VarNames(vars)
               \/ src = "import \"m\" as m; ." /\ "lib" \notin LibSet(library_paths)
    IN  IF bad THEN [ok |-> FALSE, err |-> "CompileError",
                     prog |-> [src |-> "", vars |-> <<>>, library_paths |-> <<>>]]
        ELSE [ok |-> TRUE, err |-> "",
              prog |-> [src |-> src, vars |-> vars, library_paths |-> library_paths]]

Lookup(vars, name) ==
    LET i == CHOOSE i \in 1..Len(vars) : vars[i].name = name IN vars[i].val

RECURSIVE ModEach(_)
ModEach(s) ==
    IF s = <<>> \/ Head(s) = 0 THEN <<>>
    ELSE <<JNum(1 % Head(s))>> \o ModEach(Tail(s))

HasZero(s) == \E i \in 1..Len(s) : s[i] = 0

\* The whole result sequence of one evaluation: the values it produces and
\* how it ends.
Evaluate(prog, input) ==
    CASE prog.src \in {".", "import \"m\" as m; ."} ->
            [out |-> <<input>>, end |-> "Exhausted"]
      [] prog.src = ".,.,." -> [out |-> <<input, input, input>>, end |-> "Exhausted"]
      [] prog.src = "empty" -> [out |-> <<>>, end |-> "Exhausted"]
      [] prog.src = "$x" -> [out |-> <<Lookup(prog.vars, "x")>>, end |-> "Exhausted"]
      [] prog.src = ".[]" ->
            IF input.t = "list"
            THEN [out |-> [i \in 1..Len(input.v) |-> JNum(input.v[i])], end |-> "Exhausted"]
            ELSE [out |-> <<>>, end |-> "Failed"]
      [] OTHER ->
            IF input.t = "list"
            THEN [out |-> ModEach(input.v),
                  end |-> IF HasZero(input.v) THEN "Failed" ELSE "Exhausted"]
            ELSE [out |-> <<>>, end |-> "Failed"]

\* ------------------------------------------------------------ pyjq.py
\* script.encode("utf-8")
Encodable(script) == script # "\\udc80"
Encode(script) == <<"utf-8", script>>

\* compile(script, vars, library_paths)
compile(script, vars, library_paths) ==
    IF ~Encodable(script)
    THEN [ok |-> FALSE, err |-> "UnicodeEncodeError",
          prog |-> [src |-> "", vars |-> <<>>, library_paths |-> <<>>]]
    ELSE ScriptNew(Encode(script), vars, library_paths)

\* Variant of _get_value: a url without a value returns the value, unfetched.
GetValueNoFetch(value, url, opener) ==
    IF url # NoUrl /\ value # None
    THEN [ok |-> FALSE, err |-> "TypeError", val |-> None, calls |-> <<>>]
    ELSE [ok |-> TRUE, err |-> "", val |-> value, calls |-> <<>>]

\* Variant of _get_value: an absent value without a url becomes an empty list.
GetValueDefaulting(value, url, opener) ==
    IF url # NoUrl
    THEN IF value # None
         THEN [ok |-> FALSE, err |-> "TypeError", val |-> None, calls |-> <<>>]
         ELSE LET r == OpenerResult(opener, url)
              IN  [ok |-> r.ok, err |-> r.err, val |-> r.val, calls |-> <<url>>]
    ELSE [ok |-> TRUE, err |-> "", val |-> IF value = None THEN JList(<<>>) ELSE value,
          calls |-> <<>>]

\* Variant of _get_value: a failed opener call is made a second time.
GetValueRetry(value, url, opener) ==
    IF url # NoUrl
    THEN IF value # None
         THEN [ok |-> FALSE, err |-> "TypeError", val |-> None, calls |-> <<>>]
         ELSE LET r == OpenerResult(opener, url)
              IN  [ok |-> r.ok, err |-> r.err, val |-> r.val,
                   calls |-> IF r.ok THEN <<url>> ELSE <<url, url>>]
    ELSE [ok |-> TRUE, err |-> "", val |-> value, calls |-> <<>>]

\* _get_value(value, url, opener): what it returns or raises, and the opener
\* calls it makes.
GetValue(value, url, opener) ==
    IF url # NoUrl
    THEN IF value # None
         THEN [ok |-> FALSE, err |-> "TypeError", val |-> None, calls |-> <<>>]
         ELSE LET r == OpenerResult(opener, url)
              IN  [ok |-> r.ok, err |-> r.err, val |-> r.val, calls |-> <<url>>]
    ELSE [ok |-> TRUE, err |-> "", val |-> value, calls |-> <<>>]

\* Variant of apply: the url is not forwarded.
ApplyForwardNoUrl(a) ==
    [script |-> a.script, value |-> a.value, vars |-> a.vars, url |-> NoUrl,
     opener |-> a.opener, library_paths |-> a.library_paths, default |-> None]

\* apply(...) -> all(script, value, vars, url, opener, library_paths)
ApplyForward(a) ==
    [script |-> a.script, value |-> a.value, vars |-> a.vars, url |-> a.url,
     opener |-> a.opener, library_paths |-> a.library_paths, default |-> None]

\* ScriptRuntimeError = _pyjq.ScriptRuntimeError
ScriptRuntimeError == "ScriptRuntimeError"

\* Variant: the bindings are not handed to compile.
CompileArgsNoVars(f) == <<f.script, <<>>, f.library_paths>>

\* The arguments handed to compile by the entry points.
CompileArgs(f) == <<f.script, f.vars, f.library_paths>>

\* Variant: the value is not handed to _get_value.
ResolveArgsNoValue(f) == <<None, f.url, f.opener>>

\* The arguments handed to _get_value by the entry points.
ResolveArgs(f) == <<f.value, f.url, f.opener>>

\* Variant: first does not hand its default on.
FirstDefaultDropped(f) == None

\* The default handed to Script.first by first.
FirstDefault(f) == f.default

\* Variant: the entry point catches the engine's fault and returns an empty
\* result.
EntryReturnSwallow(r) ==
    IF r.kind = "raise" /\ r.err = "ScriptRuntimeError"
    THEN [kind |-> "return", err |-> "", val |-> <<>>]
    ELSE r

\* `return <method call>`: the entry point hands the method's result, or the
\* exception it raised, to its caller as it is.
EntryReturn(r) == r

\* ------------------------------------------------------ default_opener
\* Text is a sequence of one-character strings.
Keyword == <<"c", "h", "a", "r", "s", "e", "t">>
Utf8Name == <<"u", "t", "f", "-", "8">>

\* The case folding re.I and the codec registry apply.
Lower(c) ==
    CASE c = "C" -> "c" [] c = "H" -> "h" [] c = "A" -> "a" [] c = "R" -> "r"
      [] c = "S" -> "s" [] c = "E" -> "e" [] c = "T" -> "t" [] c = "L" -> "l"
      [] OTHER -> c

\* \s and \S
IsSpace(c) == c \in {" ", "\t"}

\* The literal `charset` of the pattern, under re.I, at position i.
KeywordAt(h, i) ==
    /\ i + Len(Keyword) - 1 <= Len(h)
    /\ \A k \in 1..Len(Keyword) : Lower(h[i + k - 1]) = Keyword[k]

\* \s* from position i: the first position it does not consume.
RECURSIVE SkipSpace(_, _)
SkipSpace(h, i) == IF i <= Len(h) /\ IsSpace(h[i]) THEN SkipSpace(h, i + 1) ELSE i

\* \S+ from position i: the first position it does not consume.
RECURSIVE SkipNonSpace(_, _)
SkipNonSpace(h, i) == IF i <= Len(h) /\ ~IsSpace(h[i]) THEN SkipNonSpace(h, i + 1) ELSE i

NoMatch == [found |-> FALSE, group1 |-> <<>>]

\* The pattern charset\s*=\s*(\S+) anchored at position i.
MatchAt(h, i) ==
    IF ~KeywordAt(h, i) THEN NoMatch
    ELSE LET e == SkipSpace(h, i + Len(Keyword))
         IN  IF e > Len(h) \/ h[e] # "=" THEN NoMatch
             ELSE LET b == SkipSpace(h, e + 1)
                      n == SkipNonSpace(h, b)
                  IN  IF n = b THEN NoMatch
                      ELSE [found |-> TRUE, group1 |-> SubSeq(h, b, n - 1)]

\* re.search(r"charset\s*=\s*(\S+)", content_type, re.I): the leftmost match.
RECURSIVE Search(_, _)
Search(h, i) ==
    IF i > Len(h) THEN NoMatch
    ELSE LET m == MatchAt(h, i) IN IF m.found THEN m ELSE Search(h, i + 1)

NoHeader == [present |-> FALSE, text |-> <<>>]
Header(h) == [present |-> TRUE, text |-> h]

\* bytes.decode(encoding): the codec registry folds case, turns each run of
\* other characters into one underscore and drops underscores at both ends.
IsAlnum(c) == Lower(c) \in {"a", "c", "e", "f", "h", "l", "r", "s", "t", "u", "1", "8"}

RECURSIVE Normalize(_, _)
Normalize(name, acc) ==
    IF name = <<>> THEN acc
    ELSE LET c == Head(name)
         IN  IF IsAlnum(c) THEN Normalize(Tail(name), Append(acc, Lower(c)))
             ELSE IF acc = <<>> \/ acc[Len(acc)] = "_" THEN Normalize(Tail(name), acc)
             ELSE Normalize(Tail(name), Append(acc, "_"))

StripEnd(s) == IF s # <<>> /\ s[Len(s)] = "_" THEN SubSeq(s, 1, Len(s) - 1) ELSE s

CodecLookup(name) ==
    LET n == StripEnd(Normalize(name, <<>>))
    IN  CASE n \in {<<"u", "t", "f", "_", "8">>, <<"u", "8">>} -> "utf_8"
          [] n \in {<<"l", "1">>} -> "latin_1"
          [] OTHER -> "unknown"

\* Variant of the choice: a token no codec answers to is replaced by UTF-8.
SelectEncodingFallback(content_type) ==
    IF ~content_type.present
    THEN Utf8Name
    ELSE LET m == Search(content_type.text, 1)
         IN  IF ~m.found \/ CodecLookup(m.group1) = "unknown" THEN Utf8Name ELSE m.group1

\* The encoding default_opener settles on for a Content-Type header.
SelectEncoding(content_type) ==
    IF ~content_type.present
    THEN Utf8Name
    ELSE LET m == Search(content_type.text, 1)
         IN  IF ~m.found THEN Utf8Name ELSE m.group1

\* res.read().decode(encoding) for a body holding a non-ASCII character.
Decode(body, encoding) ==
    LET codec == CodecLookup(encoding)
    IN  CASE codec = "unknown" -> [ok |-> FALSE, err |-> "LookupError", text |-> ""]
          [] codec = "utf_8" /\ body.codec = "latin_1" ->
                [ok |-> FALSE, err |-> "UnicodeDecodeError", text |-> ""]
          [] codec = body.codec -> [ok |-> TRUE, err |-> "", text |-> body.text]
          [] OTHER -> [ok |-> TRUE, err |-> "", text |-> "mojibake " \o body.text]

\* json.loads(text)
Loads(text) ==
    IF text \in {"\"e-acute\"", "mojibake \"e-acute\""}
    THEN [ok |-> TRUE, err |-> "", val |-> text]
    ELSE [ok |-> FALSE, err |-> "JSONDecodeError", val |-> ""]

Segments ==
    {Keyword, <<"C", "h", "A", "R", "s", "e", "T">>, <<" ">>, <<"\t">>, <<"=">>,
     <<"u", "8">>, <<"L", "1">>, <<";">>, <<"\"">>}

RECURSIVE Concat(_)
Concat(ss) == IF ss = <<>> THEN <<>> ELSE Head(ss) \o Concat(Tail(ss))

Headers == {Header(Concat(ss)) : ss \in SeqsUpTo(Segments, MaxSegs)} \cup {NoHeader}
Bodies == [codec : {"utf_8", "latin_1"}, text : {"\"e-acute\"", "{"}]

\* ------------------------------------------------------------- state
VARIABLES
    entry,      \* the entry point the caller invoked
    args,       \* the caller's arguments
    fn,         \* the function whose body is running: all, first or one
    frame,      \* its parameters
    pc,         \* position within the call
    prog,       \* the compiled Script object
    input,      \* the resolved input value
    evalState,  \* NotStarted, Producing, Exhausted, Failed
    pulled,     \* values pulled from the result sequence so far
    outcome,    \* what the caller receives
    trace,      \* the compile, fetch and evaluation steps taken so far
    opc,          \* position within default_opener
    content_type, \* res.getheader("Content-Type")
    encoding,     \* the local variable encoding
    decodedWith,  \* the encoding handed to bytes.decode
    text,         \* the decoded body
    opened        \* what default_opener returns or raises

callVars == <<entry, args, fn, frame, pc, prog, input, evalState, pulled, outcome, trace>>
openerVars == <<opc, content_type, encoding, decodedWith, text, opened>>
vars == <<callVars, openerVars>>

NoProg == [src |-> "", vars |-> <<>>, library_paths |-> <<>>]
Running == [kind |-> "running", err |-> "", val |-> <<>>]
Raise(e) == [kind |-> "raise", err |-> e, val |-> <<>>]
\* all returns the list itself; first and one return val[1].
Return(s) == [kind |-> "return", err |-> "", val |-> s]
Event(ev, arg, ok, err) == [ev |-> ev, arg |-> arg, ok |-> ok, err |-> err]

ArgSets ==
    [script : Scripts, value : Values, vars : VarsChoices, url : Urls \cup {NoUrl},
     opener : Openers, library_paths : LibraryPathsChoices, default : Defaults]

OpenerIdle ==
    /\ opc = "idle"
    /\ content_type = NoHeader
    /\ encoding = <<>>
    /\ decodedWith = <<>>
    /\ text = ""
    /\ opened = [kind |-> "running", err |-> "", val |-> ""]

Init ==
    /\ OpenerIdle
    /\ entry \in Entries
    /\ args \in ArgSets
    /\ (entry # "first" => args.default = None)
    /\ fn = entry
    /\ frame = args
    /\ pc = "call"
    /\ prog = NoProg
    /\ input = None
    /\ evalState = "NotStarted"
    /\ pulled = <<>>
    /\ outcome = Running
    /\ trace = <<>>

\* The caller enters all, first or one directly.
Enter ==
    /\ UNCHANGED openerVars
    /\ pc = "call"
    /\ entry # "apply"
    /\ pc' = "compile"
    /\ UNCHANGED <<entry, args, fn, frame, prog, input, evalState, pulled, outcome, trace>>

\* apply calls all with its arguments, positionally.
Apply ==
    /\ UNCHANGED openerVars
    /\ pc = "call"
    /\ entry = "apply"
    /\ fn' = "all"
    /\ frame' = ApplyForward(args)
    /\ pc' = "compile"
    /\ UNCHANGED <<entry, args, prog, input, evalState, pulled, outcome, trace>>

\* compile(script, vars, library_paths), evaluated first.
Compile ==
    /\ UNCHANGED openerVars
    /\ pc = "compile"
    /\ LET a == CompileArgs(frame)
           c == compile(a[1], a[2], a[3])
       IN  /\ trace' = Append(trace, Event("compile", a[1], c.ok, c.err))
           /\ IF c.ok
              THEN /\ prog' = c.prog
                   /\ pc' = "resolve"
                   /\ UNCHANGED outcome
              ELSE /\ outcome' = Raise(c.err)
                   /\ pc' = "done"
                   /\ UNCHANGED prog
    /\ UNCHANGED <<entry, args, fn, frame, input, evalState, pulled>>

\* One trace entry per opener call _get_value made.
FetchEvents(r) == [i \in 1..Len(r.calls) |-> Event("fetch", r.calls[i], r.ok, r.err)]

\* _get_value(value, url, opener), the argument of the method call.
Resolve ==
    /\ UNCHANGED openerVars
    /\ pc = "resolve"
    /\ LET a == ResolveArgs(frame)
           r == GetValue(a[1], a[2], a[3])
       IN  /\ trace' = trace \o FetchEvents(r)
           /\ IF r.ok
              THEN /\ input' = r.val
                   /\ pc' = "eval"
                   /\ UNCHANGED outcome
              ELSE /\ outcome' = Raise(r.err)
                   /\ pc' = "done"
                   /\ UNCHANGED input
    /\ UNCHANGED <<entry, args, fn, frame, prog, evalState, pulled>>

\* Script.all / Script.first / Script.one begin one evaluation of the compiled
\* script against the resolved input.
EvalStart ==
    /\ UNCHANGED openerVars
    /\ pc = "eval"
    /\ evalState = "NotStarted"
    /\ evalState' = "Producing"
    /\ trace' = Append(trace, Event("eval", fn, TRUE, ""))
    /\ pc' = "pull"
    /\ UNCHANGED <<entry, args, fn, frame, prog, input, pulled, outcome>>

\* Does the method pull again?  all drains the sequence, first stops at the
\* first value, one peeks at most a second value.
WantsMore(m, st, got) ==
    /\ st = "Producing"
    /\ \/ m = "all"
       \/ m = "first" /\ Len(got) < 1
       \/ m = "one" /\ Len(got) < 2

\* What the method returns once it pulls no more.
MethodResult(m, got, dflt) ==
    CASE m = "all" -> Return(got)
      [] m = "first" -> IF Len(got) >= 1 THEN Return(<<got[1]>>) ELSE Return(<<dflt>>)
      [] OTHER -> IF Len(got) = 1 THEN Return(<<got[1]>>) ELSE Raise("CardinalityError")

\* One pull from the result sequence: the next value, its end, or a fault,
\* which leaves the method and the entry point at once.
Pull ==
    /\ UNCHANGED openerVars
    /\ pc = "pull"
    /\ WantsMore(fn, evalState, pulled)
    /\ LET res == Evaluate(prog, input)
           k == Len(pulled)
       IN  IF k < Len(res.out)
           THEN /\ pulled' = Append(pulled, res.out[k + 1])
                /\ trace' = Append(trace, Event("pull", "value", TRUE, ""))
                /\ UNCHANGED <<evalState, outcome, pc>>
           ELSE IF res.end = "Failed"
           THEN /\ evalState' = "Failed"
                /\ trace' = Append(trace, Event("pull", "fault", FALSE, ScriptRuntimeError))
                /\ outcome' = EntryReturn(Raise(ScriptRuntimeError))
                /\ pc' = "done"
                /\ UNCHANGED pulled
           ELSE /\ evalState' = "Exhausted"
                /\ trace' = Append(trace, Event("pull", "end", TRUE, ""))
                /\ UNCHANGED <<pulled, outcome, pc>>
    /\ UNCHANGED <<entry, args, fn, frame, prog, input>>

\* The method pulls no more and returns.
Finish ==
    /\ UNCHANGED openerVars
    /\ pc = "pull"
    /\ ~WantsMore(fn, evalState, pulled)
    /\ outcome' = EntryReturn(MethodResult(fn, pulled, FirstDefault(frame)))
    /\ pc' = "done"
    /\ UNCHANGED <<entry, args, fn, frame, prog, input, evalState, pulled, trace>>

Next == Enter \/ Apply \/ Compile \/ Resolve \/ EvalStart \/ Pull \/ Finish

Spec == Init /\ [][Next]_vars

\* ------------------------------------------------- one call of default_opener
CallIdle ==
    /\ entry = "all"
    /\ args = [script |-> ".", value |-> None, vars |-> <<>>, url |-> "u1",
               opener |-> "default_opener", library_paths |-> <<>>, default |-> None]
    /\ fn = "all"
    /\ frame = args
    /\ pc = "opener"
    /\ prog = NoProg
    /\ input = None
    /\ evalState = "NotStarted"
    /\ pulled = <<>>
    /\ outcome = Running
    /\ trace = <<>>

OpenerInit ==
    /\ CallIdle
    /\ opc = "urlopen"
    /\ content_type = NoHeader
    /\ encoding = <<>>
    /\ decodedWith = <<>>
    /\ text = ""
    /\ opened = [kind |-> "running", err |-> "", val |-> ""]

\* res = urllib.request.urlopen(url)
UrlOpen ==
    /\ opc = "urlopen"
    /\ \/ /\ opc' = "getheader"
          /\ UNCHANGED opened
       \/ /\ opc' = "done"
          /\ opened' = [kind |-> "raise", err |-> "URLError", val |-> ""]
    /\ UNCHANGED <<callVars, content_type, encoding, decodedWith, text>>

\* content_type = res.getheader("Content-Type") and the choice of encoding.
ChooseEncoding ==
    /\ opc = "getheader"
    /\ \E h \in Headers :
          /\ content_type' = h
          /\ encoding' = SelectEncoding(h)
    /\ opc' = "decode"
    /\ UNCHANGED <<callVars, decodedWith, text, opened>>

\* res.read().decode(encoding)
ReadDecode ==
    /\ opc = "decode"
    /\ decodedWith' = encoding
    /\ \E body \in Bodies :
          LET d == Decode(body, encoding)
          IN  IF d.ok
              THEN /\ text' = d.text
                   /\ opc' = "loads"
                   /\ UNCHANGED opened
              ELSE /\ opened' = [kind |-> "raise", err |-> d.err, val |-> ""]
                   /\ opc' = "done"
                   /\ UNCHANGED text
    /\ UNCHANGED <<callVars, content_type, encoding>>

\* return json.loads(...)
JsonLoads ==
    /\ opc = "loads"
    /\ LET j == Loads(text)
       IN  opened' = IF j.ok THEN [kind |-> "return", err |-> "", val |-> j.val]
                     ELSE [kind |-> "raise", err |-> j.err, val |-> ""]
    /\ opc' = "done"
    /\ UNCHANGED <<callVars, content_type, encoding, decodedWith, text>>

OpenerNext == UrlOpen \/ ChooseEncoding \/ ReadDecode \/ JsonLoads

OpenerSpec == OpenerInit /\ [][OpenerNext]_vars

\* ------------------------------------------------------------ properties
EventsOf(ev) == {i \in 1..Len(trace) : trace[i].ev = ev}
CompiledOk == \E i \in EventsOf("compile") : trace[i].ok
\* _get_value has run and returned or raised.
ResolutionRan == CompiledOk /\ pc # "resolve"
\* The method of the compiled script has been entered.
EvalRan == EventsOf("eval") # {}

\* What the caller's arguments resolve to, and the result sequence the engine
\* gives for the caller's script, bindings, library paths and that input.
RefInput == IF args.url = NoUrl THEN args.value ELSE OpenerResult(args.opener, args.url).val
RefProg == [src |-> args.script, vars |-> args.vars, library_paths |-> args.library_paths]
RefResult == Evaluate(RefProg, RefInput)

\* C1: every entry point, given both a value and a url, fails with TypeError,
\* and no compile step and no opener call happens in that call.
C1_GuardBeforeCompileAndFetch ==
    (args.value # None /\ args.url # NoUrl /\ pc = "done") =>
        /\ outcome = Raise("TypeError")
        /\ EventsOf("compile") = {}
        /\ EventsOf("fetch") = {}

\* C2: when input resolution runs with a url and no value, the opener is
\* called exactly once, with that url; its return value is the input the
\* evaluation gets; if it fails, its error is what the entry point raises and
\* no evaluation is started.
C2_FetchOnceWithUrl ==
    (args.url # NoUrl /\ args.value = None) =>
        /\ ~ResolutionRan => EventsOf("fetch") = {}
        /\ ResolutionRan =>
            LET r == OpenerResult(args.opener, args.url)
            IN  /\ Cardinality(EventsOf("fetch")) = 1
                /\ \A i \in EventsOf("fetch") : trace[i].arg = args.url
                /\ r.ok => input = r.val
                /\ ~r.ok => /\ pc = "done"
                            /\ outcome = Raise(r.err)
                            /\ evalState = "NotStarted"
                            /\ ~EvalRan

C2_Witness_FetchedInputEvaluated ==
    /\ entry = "one"
    /\ args.url = "u1" /\ args.value = None /\ args.opener = "opener_a"
    /\ args.script = "."
    /\ pc = "done"
    /\ Cardinality(EventsOf("fetch")) = 1
    /\ outcome = Return(<<JList(<<1>>)>>)

\* C3: without a url the resolved input is the caller's value itself, None
\* included, and the opener is never called.
C3_ValuePassedThrough ==
    args.url = NoUrl =>
        /\ EventsOf("fetch") = {}
        /\ ResolutionRan => input = args.value /\ outcome.err # "TypeError"

C3_Witness_NoneStaysNone ==
    /\ entry = "all"
    /\ args.url = NoUrl /\ args.value = None
    /\ args.script = "."
    /\ pc = "done"
    /\ EventsOf("fetch") = {}
    /\ outcome = Return(<<None>>)

\* C9: a call compiles at most once, calls the opener at most once and starts
\* at most one evaluation; a failed step is the last step of the call and its
\* error is what the caller receives.
C9_SingleAttempt ==
    /\ Cardinality(EventsOf("compile")) <= 1
    /\ Cardinality(EventsOf("fetch")) <= 1
    /\ Cardinality(EventsOf("eval")) <= 1
    /\ \A i \in 1..Len(trace) :
          ~trace[i].ok => /\ i = Len(trace)
                          /\ pc = "done"
                          /\ outcome = Raise(trace[i].err)
    /\ outcome.kind = "return" => \A i \in 1..Len(trace) : trace[i].ok

C9_Witness_FetchFailureSurfaces ==
    /\ args.url = "u1" /\ args.value = None /\ args.opener = "opener_b"
    /\ pc = "done"
    /\ Len(trace) = 2
    /\ trace[2].ev = "fetch" /\ ~trace[2].ok
    /\ outcome = Raise("URLError")

\* Do the caller's arguments get past compile and _get_value?
RefCompile == compile(args.script, args.vars, args.library_paths)
RefResolves ==
    /\ ~(args.url # NoUrl /\ args.value # None)
    /\ args.url # NoUrl => OpenerResult(args.opener, args.url).ok
\* The result sequence of evaluating the caller's compiled script against the
\* caller's resolved input.
RefSequence == Evaluate(RefCompile.prog, RefInput)
Evaluated == pc = "done" /\ RefCompile.ok /\ RefResolves

\* C5: first returns the first value of the result sequence, or its default
\* when the sequence ends without a value; it never pulls a second value, so
\* a fault behind the first value does not surface.
C5_FirstLazy ==
    entry = "first" =>
        /\ Len(pulled) <= 1
        /\ Evaluated =>
            /\ Len(RefSequence.out) >= 1 => outcome = Return(<<RefSequence.out[1]>>)
            /\ RefSequence.out = <<>> /\ RefSequence.end = "Exhausted" =>
                  outcome = Return(<<args.default>>)

C5_Witness_FaultBehindFirstValue ==
    /\ entry = "first"
    /\ args.script = ".[] | 1 % ." /\ args.value = JList(<<1, 0>>) /\ args.url = NoUrl
    /\ RefSequence.end = "Failed"
    /\ pc = "done"
    /\ outcome = Return(<<JNum(0)>>)

\* C6: one returns r exactly when the result sequence is the single value r;
\* an empty sequence and a sequence of two or more values both end in
\* CardinalityError; at most two values are ever pulled.
C6_OneExactlyOne ==
    entry = "one" =>
        /\ Len(pulled) <= 2
        /\ pc = "done" /\ outcome.kind = "return" => Evaluated
        /\ Evaluated =>
            LET r == RefSequence
            IN  /\ r.end = "Exhausted" /\ Len(r.out) = 1 => outcome = Return(<<r.out[1]>>)
                /\ (r.end = "Exhausted" /\ r.out = <<>>) \/ Len(r.out) >= 2 =>
                      outcome = Raise("CardinalityError")
                /\ outcome.kind = "return" => r.end = "Exhausted" /\ Len(r.out) = 1

C6_Witness_ThreeValuesTwoPulled ==
    /\ entry = "one"
    /\ args.script = ".,.,." /\ args.url = NoUrl
    /\ Len(RefSequence.out) = 3
    /\ pc = "done"
    /\ Len(pulled) = 2
    /\ outcome = Raise("CardinalityError")

\* C7: all returns, in order, exactly the values of one complete evaluation of
\* the compiled script against the input; an empty sequence gives the empty
\* list.
C7_AllEqualsSequence ==
    (entry = "all" /\ Evaluated /\ RefSequence.end = "Exhausted") =>
        /\ outcome = Return(RefSequence.out)
        /\ pulled = RefSequence.out

C7_Witness_OrderedList ==
    /\ entry = "all"
    /\ args.script = ".[]" /\ args.value = JList(<<1, 0>>) /\ args.url = NoUrl
    /\ pc = "done"
    /\ outcome = Return(<<JNum(1), JNum(0)>>)

\* C8: in all and apply, a fault after k values ends the call in
\* ScriptRuntimeError with no result; the evaluation only moves NotStarted ->
\* Producing -> Exhausted or Failed, and after Failed no further step is taken.
C8_FaultDiscardsPartial ==
    /\ [](entry \in {"all", "apply"} /\ Evaluated /\ RefSequence.end = "Failed" =>
             /\ outcome = Raise(ScriptRuntimeError)
             /\ evalState = "Failed"
             /\ pulled = RefSequence.out)
    /\ [][/\ evalState' # evalState =>
               <<evalState, evalState'>> \in {<<"NotStarted", "Producing">>,
                                              <<"Producing", "Exhausted">>,
                                              <<"Producing", "Failed">>}
          /\ evalState = "Failed" => trace' = trace /\ outcome' = outcome]_vars

C8_Witness_FaultAfterOneValue ==
    /\ entry = "apply"
    /\ args.script = ".[] | 1 % ." /\ args.value = JList(<<1, 0>>) /\ args.url = NoUrl
    /\ pc = "done"
    /\ pulled = <<JNum(0)>>
    /\ evalState = "Failed"
    /\ outcome = Raise(ScriptRuntimeError)

\* The steps and the outcome of all(script, value, vars, url, opener,
\* library_paths), as one expression.
AllRun(a) ==
    LET c == compile(a.script, a.vars, a.library_paths)
        r == GetValue(a.value, a.url, a.opener)
        e == Evaluate(c.prog, r.val)
        t1 == <<Event("compile", a.script, c.ok, c.err)>>
        t2 == t1 \o FetchEvents(r)
        t3 == t2 \o <<Event("eval", "all", TRUE, "")>>
                 \o [i \in 1..Len(e.out) |-> Event("pull", "value", TRUE, "")]
    IN  IF ~c.ok THEN <<t1, Raise(c.err)>>
        ELSE IF ~r.ok THEN <<t2, Raise(r.err)>>
        ELSE IF e.end = "Failed"
        THEN <<Append(t3, Event("pull", "fault", FALSE, ScriptRuntimeError)),
               Raise(ScriptRuntimeError)>>
        ELSE <<Append(t3, Event("pull", "end", TRUE, "")), Return(e.out)>>

\* C10: apply takes the same compile, fetch and evaluation steps as all on the
\* same arguments and ends with the same outcome.
C10_ApplyIsAll ==
    (entry \in {"all", "apply"} /\ pc = "done") => <<trace, outcome>> = AllRun(args)

C10_Witness_ApplyFetches ==
    /\ entry = "apply"
    /\ args.url = "u1" /\ args.value = None /\ args.opener = "opener_a"
    /\ args.script = ".[]"
    /\ pc = "done"
    /\ outcome = Return(<<JNum(1)>>)

\* --------------------------------------------- properties of default_opener
\* The header was read and an encoding chosen.
Chosen == opc \in {"decode", "loads"} \/ (opc = "done" /\ opened.err # "URLError")
Decoded == opc = "loads" \/ (opc = "done" /\ opened.err # "URLError")

AllSpace(h, from, to) == \A k \in from..to : IsSpace(h[k])

\* The positions where charset\s*=\s*(\S+) matches under re.I.
MatchStarts(h) ==
    {i \in 1..Len(h) :
        /\ KeywordAt(h, i)
        /\ \E e \in (i + Len(Keyword))..Len(h) :
              /\ AllSpace(h, i + Len(Keyword), e - 1)
              /\ h[e] = "="
              /\ \E b \in (e + 1)..Len(h) : AllSpace(h, e + 1, b - 1) /\ ~IsSpace(h[b])}

\* t is the run of non-whitespace characters that follows the match at i.
IsTokenAt(h, i, t) ==
    \E e \in (i + Len(Keyword))..Len(h) :
        /\ AllSpace(h, i + Len(Keyword), e - 1)
        /\ h[e] = "="
        /\ \E b \in (e + 1)..Len(h) :
              /\ AllSpace(h, e + 1, b - 1)
              /\ \E n \in b..Len(h) :
                    /\ \A k \in b..n : ~IsSpace(h[k])
                    /\ n = Len(h) \/ IsSpace(h[n + 1])
                    /\ t = SubSeq(h, b, n)

\* C4: the body is decoded as UTF-8 when the Content-Type header is absent or
\* holds no match of charset\s*=\s*(\S+) in any letter case; otherwise with the
\* matched token exactly as it stands in the header, and a token no codec
\* answers to ends the call in a decoding failure.
C4_CharsetSelection ==
    Chosen =>
        LET h == content_type.text
            starts == MatchStarts(h)
        IN  /\ ~content_type.present \/ starts = {} => encoding = Utf8Name
            /\ content_type.present /\ starts # {} =>
                  IsTokenAt(h, CHOOSE i \in starts : \A j \in starts : i <= j, encoding)
            /\ Decoded => decodedWith = encoding
            /\ Decoded /\ CodecLookup(encoding) = "unknown" =>
                  opened = [kind |-> "raise", err |-> "LookupError", val |-> ""]

C4_Witness_TokenVerbatim ==
    /\ opc = "done"
    /\ content_type = Header(<<"C", "h", "A", "R", "s", "e", "T", "=", "u", "8", ";">>)
    /\ decodedWith = <<"u", "8", ";">>
    /\ CodecLookup(decodedWith) = "utf_8"
    /\ opened = [kind |-> "return", err |-> "", val |-> "\"e-acute\""]
====
